---------------------------- MODULE Spec2Model ----------------------------
(***************************************************************************)
(* Model of the Jak II Archipelago client bridge:                          *)
(*   worlds/jakii/agents/memory_reader.py  (Jak2MemoryReader, the poller)  *)
(*   worlds/jakii/agents/repl_client.py    (Jak2ReplClient, the dispatcher)*)
(*   worlds/jakii/client.py                (Jak2Context, the orchestrator) *)
(*                                                                         *)
(* The specifications of the module:                                      *)
(*   SpecPoller      the memory reader's tick over a changing game memory  *)
(*   SpecConnect     the memory reader's connect pipeline over many layouts*)
(*   SpecLayout      OffsetFactory.define over call sequences              *)
(*   SpecReplSingle  the REPL client with the tick as the only drainer     *)
(*   SpecRepl        the REPL client with the tick and '/repl refresh'     *)
(*   SpecReplTasks   the REPL client with every task that sends a form     *)
(*   SpecReconnect   both agents connecting, with no traffic               *)
(*   FairSpecRepl    SpecRepl under the event loop's scheduling            *)
(*   SpecFinish      the poller and the orchestrator's finish notification *)
(*   SpecAgents      both agents with traffic in both directions           *)
(*   SpecScan        the reader's connect over many module lists           *)
(*   SpecResync      SpecReplSingle with a session that resynchronises     *)
(*   SpecExtent      the entries a poll reads, over the counters it reads  *)
(***************************************************************************)
EXTENDS Integers, Sequences, FiniteSets, TLC

\* ------------------------------------------------------------------ bounds
MaxMain == 2        \* entries of the main-mission array the game fills
MaxSide == 1        \* entries of the side-mission array the game fills
MaxOutbox == 2      \* polls stop once the outbox could grow past this
MaxIndex == 5       \* the session assigns the item indices 0 .. MaxIndex-1
MaxDefines == 3     \* define() call sequences of any shape up to this length
MaxFinishTasks == 2 \* finish notifications suspended in send_msgs at one time
MaxModules == 2     \* modules the game process has loaded
MaxCounter == 72    \* largest value a poll reads from a mission counter

\* --------------------------------------------------------- program constants
expected_memory_version == 2
marker_length_in_cpp == 17
block_size == 32
FinalBossTask == 70
SideOffset == 100
sizeof_uint64 == 8
sizeof_uint32 == 4
sizeof_uint8 == 1
main_extent == 70
side_extent == 24
default_ip == "127.0.0.1"
default_port == 8181

VARIABLES
    \* Jak2MemoryReader fields
    memr_connected, memr_initiated_connect, goal_address,
    location_outbox, outbox_index, finished_game,
    \* game process memory (the ap-info-jak2 block) and the marker block
    missions_checked, side_missions_checked, env_block, env_deref,
    \* history of the poller, kept for the properties:
    \*   memr_op         the most recent step and what it did
    \*   snapshot_seen   the last tick polled without a read error and the
    \*                   game memory is unchanged since
    \*   informed_upto   length of the longest outbox passed upstream
    memr_op, snapshot_seen, informed_upto,
    \* Jak2ReplClient fields
    repl_connected, repl_initiated_connect, item_inbox, inbox_index,
    \* the asyncio lock of send_form and the tasks that call into the client
    lock_holder, lock_waiters, task_pc, task_item, hs_step,
    \* the multiworld session's item list
    session_items,
    \* history of the dispatcher, kept for the properties:
    \*   attempts   the indices send_items passed to send_item_to_game
    \*   wire       the indices whose item command was written to the socket
    attempts, wire,
    \*   form_log   the bootstrap and status forms written to the socket
    \*   hs_failed  a send_form call of the bootstrap script returned False
    \*   repl_op    what the most recent step of the client did
    form_log, hs_failed, repl_op,
    \* forms a '/repl test' or '/repl send' task may still send
    command_stage,
    \* the address open_connection is given
    repl_ip, repl_port,
    \* OffsetFactory: its cursor, and the define() calls made on it so far
    current_offset, defined,
    \* Jak2Context: the finished_game flag, whether the session socket is
    \* open, the finish-notification tasks suspended in send_msgs, and the
    \* goal StatusUpdate messages handed to the session so far
    ctx_finished_game, server_open, finish_sending, status_updates,
    \* the game process: whether list_modules() returns, and what a pattern
    \* scan of each loaded module answers for each marker variant; and the
    \* reader's marker fields after its most recent scan
    gk_list_ok, gk_modules, marker,
    \* the two counters of the game's memory block as a poll reads them, and
    \* the indices of the mission arrays that the most recent poll read
    next_mission_idx, next_side_mission_idx, entry_reads

memr_vars == <<memr_connected, memr_initiated_connect, goal_address,
               location_outbox, outbox_index, finished_game,
               missions_checked, side_missions_checked, env_block, env_deref,
               memr_op, snapshot_seen, informed_upto>>

repl_vars == <<repl_connected, repl_initiated_connect, item_inbox, inbox_index,
               lock_holder, lock_waiters, task_pc, task_item, hs_step,
               session_items, attempts, wire, form_log, hs_failed, repl_op,
               command_stage, repl_ip, repl_port>>

layout_vars == <<current_offset, defined>>

ctx_vars == <<ctx_finished_game, server_open, finish_sending, status_updates>>

scan_vars == <<gk_list_ok, gk_modules, marker>>

counter_vars == <<next_mission_idx, next_side_mission_idx, entry_reads>>

vars == <<memr_vars, repl_vars, layout_vars, ctx_vars, scan_vars, counter_vars>>

\* ------------------------------------------------------------------ helpers
Range(s) == {s[i] : i \in 1..Len(s)}
Min(a, b) == IF a < b THEN a ELSE b
Max(a, b) == IF a > b THEN a ELSE b
Prefix(s, n) == SubSeq(s, 1, n)
None == <<>>

\* ------------------------------------------------------------ static tables
GAME_TASK_TO_MISSION_ID == [r \in 6..70 |-> r - 5]
main_mission_table == 1..65
side_mission_table == 1..33

\* Raw identifiers the game writes in the model: 10 (location 5), 65
\* (location 60), the final boss 70 (location 65), and 71, which is unmapped.
MainRaw == {10, 65, FinalBossTask, 71}
\* Raw side identifiers: 5 (location 105) and 40, which is in no catalog.
SideRaw == {5, 40}

\* ------------------------------------------------- _analyze_marker_structure
\* A pointer is kept as the sequence of its eight little-endian bytes (the
\* first is the least significant): an 8-byte value exceeds TLC's integers.
\* What a 16-byte read at an address returns is <<>> when the read raises
\* and <<v>> when its first four bytes decode to the uint32 v.
Offsets == {17, 18, 20, 24}
\* The scenarios in the reverse order.
padding_scenarios_reversed ==
    << (8 - (marker_length_in_cpp % 8)) % 8,
       (4 - (marker_length_in_cpp % 4)) % 4, 1, 0 >>

padding_scenarios ==
    << 0, 1,
       (4 - (marker_length_in_cpp % 4)) % 4,
       (8 - (marker_length_in_cpp % 8)) % 8 >>

pointer_bytes(block, pointer_offset) ==
    [i \in 1..8 |-> block[pointer_offset + i - 1]]

\* pointer_value != 0 and pointer_value >= 0x1000, on the little-endian bytes
looks_valid(p) == p[2] >= 16 \/ \E i \in 3..8 : p[i] # 0

\* A scenario that accepts any readable block, whatever its version.
try_scenario_any_version(block, deref, padding) ==
    LET pointer_offset == marker_length_in_cpp + padding
    IN  IF pointer_offset + 8 <= block_size
           /\ looks_valid(pointer_bytes(block, pointer_offset))
           /\ deref[pointer_offset] # <<>>
        THEN pointer_bytes(block, pointer_offset)
        ELSE None

\* One scenario of the loop: the pointer it yields, or None.
try_scenario(block, deref, padding) ==
    LET pointer_offset == marker_length_in_cpp + padding
    IN  IF pointer_offset + 8 <= block_size
           /\ looks_valid(pointer_bytes(block, pointer_offset))
           /\ deref[pointer_offset] # <<>>
           /\ deref[pointer_offset][1] = expected_memory_version
        THEN pointer_bytes(block, pointer_offset)
        ELSE None

RECURSIVE scan_scenarios(_, _, _)
scan_scenarios(block, deref, k) ==
    IF k > Len(padding_scenarios) THEN None
    ELSE LET p == try_scenario(block, deref, padding_scenarios[k])
         IN  IF p # None THEN p ELSE scan_scenarios(block, deref, k + 1)

\* The address _analyze_marker_structure stores in goal_address, or None when
\* it returns False (block_ok: the 32-byte read at the marker succeeded).
analyze_marker_structure(block, deref, block_ok) ==
    IF ~block_ok THEN None ELSE scan_scenarios(block, deref, 1)

\* ---------------------------------------------------------------- connect
\* verify_memory_version: `reread` is what the second read of the version
\* field returns (<<>> when the read raises, <<v>> otherwise).
verify_memory_version_lenient(reread) ==
    IF reread = <<>> THEN [connected |-> FALSE, result |-> "version_error"]
    ELSE IF reread[1] = expected_memory_version
         THEN [connected |-> TRUE, result |-> "ready"]
         ELSE [connected |-> TRUE, result |-> "version_mismatch"]

verify_memory_version(reread) ==
    IF reread = <<>> THEN [connected |-> FALSE, result |-> "version_error"]
    ELSE IF reread[1] = expected_memory_version
         THEN [connected |-> TRUE, result |-> "ready"]
         ELSE [connected |-> FALSE, result |-> "version_mismatch"]

\* ------------------------------------------------------------ marker scan
\* markers_to_test: the marker without, then with, its null terminator.
markers_to_test == <<"ArChIpElAgO_JaK2", "ArChIpElAgO_JaK2+NUL">>

\* What pattern_scan_module answers for one module and one variant: an
\* address ("found"), nothing ("absent"), or an exception ("raises").
ScanOutcomes == {"found", "absent", "raises"}

NoMarker == [found |-> FALSE, variant |-> 0, module |-> 0]

\* A scan whose outer loop runs over the modules.
RECURSIVE scan_from_module_major(_, _, _)
scan_from_module_major(modules, v, m) ==
    IF m > Len(modules) THEN NoMarker
    ELSE IF v > Len(markers_to_test)
    THEN scan_from_module_major(modules, 1, m + 1)
    ELSE IF modules[m][v] = "found"
    THEN [found |-> TRUE, variant |-> v, module |-> m]
    ELSE scan_from_module_major(modules, v + 1, m)

\* The two loops of _scan_modules_for_marker from variant v, module m on:
\* the first module that answers an address ends the scan; a module that
\* answers nothing, or whose scan raises, is passed over.
RECURSIVE scan_from(_, _, _)
scan_from(modules, v, m) ==
    IF v > Len(markers_to_test) THEN NoMarker
    ELSE IF m > Len(modules)
    THEN scan_from(modules, v + 1, 1)
    ELSE IF modules[m][v] = "found"
    THEN [found |-> TRUE, variant |-> v, module |-> m]
    ELSE scan_from(modules, v, m + 1)

scan_modules_module_major(list_ok, modules) ==
    IF ~list_ok THEN NoMarker ELSE scan_from_module_major(modules, 1, 1)

\* _scan_modules_for_marker: the marker fields it sets, found = its result.
scan_modules_for_marker(list_ok, modules) ==
    IF ~list_ok THEN NoMarker ELSE scan_from(modules, 1, 1)

\* connect(): process lookup, marker scan, pointer analysis, verification.
connect(proc_found, marker_found, block_ok, reread) ==
    IF ~proc_found
    THEN [connected |-> FALSE, goal |-> goal_address, result |-> "no_process"]
    ELSE IF ~marker_found
    THEN [connected |-> FALSE, goal |-> goal_address, result |-> "no_marker"]
    ELSE LET g == analyze_marker_structure(env_block, env_deref, block_ok)
         IN  IF g = None
             THEN [connected |-> FALSE, goal |-> goal_address,
                   result |-> IF block_ok THEN "no_pointer" ELSE "no_block"]
             ELSE LET v == verify_memory_version(reread)
                  IN  [connected |-> v.connected, goal |-> g, result |-> v.result]

\* ------------------------------------------------------------- read_memory
\* The indices of the main and of the side array that read_memory reads
\* after it has read the counter: range(int(counter)) in both loops, and
\* once more for the main array in the final-boss check.
main_entry_indices(counter) == 0..(counter - 1)
side_entry_indices(counter) == 0..(counter - 1)

main_step_prepend(outbox, raw_game_task_id) ==
    IF raw_game_task_id \notin Range(outbox)
       /\ raw_game_task_id \in DOMAIN GAME_TASK_TO_MISSION_ID
    THEN <<GAME_TASK_TO_MISSION_ID[raw_game_task_id]>> \o outbox
    ELSE outbox

main_step(outbox, raw_game_task_id) ==
    IF raw_game_task_id \notin Range(outbox)
       /\ raw_game_task_id \in DOMAIN GAME_TASK_TO_MISSION_ID
       /\ GAME_TASK_TO_MISSION_ID[raw_game_task_id] \in main_mission_table
    THEN Append(outbox, GAME_TASK_TO_MISSION_ID[raw_game_task_id])
    ELSE outbox

side_step(outbox, raw_side_mission_id) ==
    IF raw_side_mission_id \notin Range(outbox)
       /\ raw_side_mission_id \in side_mission_table
    THEN Append(outbox, raw_side_mission_id + SideOffset)
    ELSE outbox

\* The loop over the main array; an entry that is not in the mapping is
\* logged and the loop goes on.
RECURSIVE scan_main_stopping(_, _)
scan_main_stopping(outbox, entries) ==
    IF entries = <<>> THEN outbox
    ELSE IF Head(entries) \notin DOMAIN GAME_TASK_TO_MISSION_ID THEN outbox
    ELSE scan_main_stopping(main_step(outbox, Head(entries)), Tail(entries))

RECURSIVE scan_main(_, _)
scan_main(outbox, entries) ==
    IF entries = <<>> THEN outbox
    ELSE scan_main(main_step(outbox, Head(entries)), Tail(entries))

RECURSIVE scan_side(_, _)
scan_side(outbox, entries) ==
    IF entries = <<>> THEN outbox
    ELSE scan_side(side_step(outbox, Head(entries)), Tail(entries))

\* Reads of one poll, in order: 2 counters, the main entries, the side
\* entries, the main entries again (the final-boss check).
NumReads(main, side) == 2 + Len(main) + Len(side) + Len(main)

\* fail_at = 0: every read succeeds; fail_at = k: the k-th read raises.
main_scanned(main, fail_at) ==
    IF fail_at = 0 THEN Len(main) ELSE Min(Len(main), Max(0, fail_at - 3))
side_scanned(main, side, fail_at) ==
    IF fail_at = 0 THEN Len(side)
    ELSE Min(Len(side), Max(0, fail_at - 3 - Len(main)))

\* The flag recomputed by every poll instead of latched.
finished_after_recomputed(finished, main, fail_at) ==
    IF fail_at = 0 THEN FinalBossTask \in Range(main) ELSE finished

\* The flag set as soon as the main loop has read the final-boss entry.
finished_after_eager(finished, main, fail_at) ==
    IF FinalBossTask \in Range(Prefix(main, main_scanned(main, fail_at)))
    THEN TRUE ELSE finished

finished_after(finished, main, fail_at) ==
    IF fail_at = 0 /\ FinalBossTask \in Range(main) THEN TRUE ELSE finished

read_memory(outbox, finished, main, side, fail_at) ==
    LET o1 == scan_main(outbox, Prefix(main, main_scanned(main, fail_at)))
        o2 == scan_side(o1, Prefix(side, side_scanned(main, side, fail_at)))
    IN  [outbox |-> o2, finished |-> finished_after(finished, main, fail_at)]

\* --------------------------------------------------------------- main_tick
\* memr_op: kind is the step ("none", "request", "game", "refresh", or for a
\* tick "idle", "probe_failed", "polled"); connect is how the tick's connect
\* attempt ended ("none": no attempt); grew: the poll appended to the outbox;
\* same: the previous tick polled without error, memory unchanged since;
\* re_informed: the tick passed upstream a list after an earlier one.
Op(kind) == [kind |-> kind, connect |-> "none", grew |-> FALSE,
             same |-> FALSE, re_informed |-> FALSE, informed |-> FALSE,
             finish |-> FALSE]

\* What a connect attempt meets: <<process found, marker found, marker block
\* readable, second read of the version field>>.
Rereads == {<<>>, <<1>>, <<2>>}
ConnectInputs ==
    IF memr_initiated_connect
    THEN {<<FALSE, FALSE, FALSE, <<>>>>, <<TRUE, FALSE, FALSE, <<>>>>,
          <<TRUE, TRUE, FALSE, <<>>>>}
         \cup {<<TRUE, TRUE, TRUE, v>> : v \in Rereads}
    ELSE {<<TRUE, TRUE, TRUE, <<2>>>>}

CanPoll ==
    Len(location_outbox) + Len(missions_checked) + Len(side_missions_checked)
        <= MaxOutbox

\* CommonContext.send_msgs as ap_inform_finished_game meets it: with no open
\* socket it returns at once and sends nothing; with an open socket the
\* message is either handed over before the call returns or the caller is
\* suspended in the socket's send.
SendMsgsOutcomes ==
    IF ~server_open THEN {"closed"}
    ELSE IF finish_sending < MaxFinishTasks THEN {"sent", "suspended"}
    ELSE {"sent"}

\* Jak2Context.ap_inform_finished_game from its start up to the first
\* suspension.  on_finish_check creates the task inside the poller's tick
\* and the event loop runs it before the poller's next tick; no step of
\* another task that runs in between reads or writes what the poller's
\* tick writes, so it is taken together with the tick.
goal_check(ctx_finished, memr_finished) == ~ctx_finished /\ memr_finished

ap_inform_finished_game(memr_finished, outcome) ==
    IF goal_check(ctx_finished_game, memr_finished)
    THEN /\ ctx_finished_game' = (outcome # "suspended")
         /\ finish_sending' = finish_sending + (IF outcome = "suspended" THEN 1 ELSE 0)
         /\ status_updates' = status_updates + (IF outcome = "sent" THEN 1 ELSE 0)
         /\ UNCHANGED server_open
    ELSE UNCHANGED ctx_vars

\* A suspended send_msgs returns and ap_inform_finished_game runs to its
\* end, or the send raises and the task ends with the exception logged.
FinishSent ==
    /\ finish_sending > 0
    /\ finish_sending' = finish_sending - 1
    /\ \E ok \in BOOLEAN :
          /\ status_updates' = status_updates + (IF ok THEN 1 ELSE 0)
          /\ ctx_finished_game' = (ok \/ ctx_finished_game)
    /\ UNCHANGED server_open
    /\ UNCHANGED <<memr_vars, repl_vars, layout_vars,
                 scan_vars, counter_vars>>

\* main_tick calls connect() only when a connect was requested.
should_connect_auto(initiated, connected) == initiated \/ ~connected
should_connect(initiated, connected) == initiated

\* The liveness probe: a connected reader whose probe read raises is
\* disconnected and the tick returns.
probe_ignored(connected, probe_ok) == connected
probe(connected, probe_ok) == connected /\ probe_ok

\* The cursor after the report of a Ready tick: one step forward when the
\* outbox is longer than the cursor.
reported_cursor_to_end(index, length) ==
    IF length > index THEN length ELSE index
reported_cursor(index, length) ==
    IF length > index THEN index + 1 ELSE index

\* Whether a Ready tick calls inform_checked_location after its poll
\* (old_len, new_len: the length of the outbox before and after the poll).
report_due_on_growth(old_len, new_len, index) == new_len > old_len
report_due(old_len, new_len, index) == new_len > index

\* Jak2MemoryReader.main_tick, one whole call.
main_tick(cin, probe_ok, fail_at, send) ==
    LET c == IF should_connect(memr_initiated_connect, memr_connected)
             THEN connect(cin[1], cin[2], cin[3], cin[4])
             ELSE [connected |-> memr_connected, goal |-> goal_address,
                   result |-> "none"]
        alive == probe(c.connected, probe_ok)
        r == IF alive
             THEN read_memory(location_outbox, finished_game,
                              missions_checked, side_missions_checked, fail_at)
             ELSE [outbox |-> location_outbox, finished |-> finished_game]
        inform == alive /\ report_due(Len(location_outbox), Len(r.outbox),
                                      outbox_index)
    IN  /\ memr_initiated_connect' = FALSE
        /\ memr_connected' = alive
        /\ goal_address' = c.goal
        /\ location_outbox' = r.outbox
        /\ finished_game' = r.finished
        /\ outbox_index' = IF alive
                           THEN reported_cursor(outbox_index, Len(r.outbox))
                           ELSE outbox_index
        /\ informed_upto' = IF inform THEN Len(r.outbox) ELSE informed_upto
        /\ snapshot_seen' = IF alive THEN fail_at = 0 ELSE snapshot_seen
        /\ memr_op' =
             [kind |-> IF ~c.connected THEN "idle"
                       ELSE IF ~probe_ok THEN "probe_failed" ELSE "polled",
              connect |-> c.result,
              grew |-> r.outbox # location_outbox,
              same |-> alive /\ snapshot_seen,
              re_informed |-> inform /\ informed_upto > 0,
              informed |-> inform,
              finish |-> alive /\ r.finished]
        /\ IF alive /\ r.finished
           THEN ap_inform_finished_game(r.finished, send)
           ELSE UNCHANGED ctx_vars
        /\ UNCHANGED <<missions_checked, side_missions_checked,
                       env_block, env_deref>>
        /\ UNCHANGED <<repl_vars, layout_vars>>

\* The inputs of a tick: what connect meets, whether the liveness probe
\* succeeds, and which read of the poll raises (0: none).
MemrTick ==
    /\ CanPoll
    /\ \E cin \in ConnectInputs, send \in SendMsgsOutcomes :
          \/ main_tick(cin, FALSE, 0, send)
          \/ \E fail_at \in 0..NumReads(missions_checked, side_missions_checked) :
                main_tick(cin, TRUE, fail_at, send)
    /\ UNCHANGED <<scan_vars, counter_vars>>

\* Jak2MemoryReader.force_memory_refresh ('/memr refresh'), one whole call.
force_memory_refresh(fail_at) ==
    LET r == read_memory(location_outbox, finished_game,
                         missions_checked, side_missions_checked, fail_at)
    IN  /\ memr_connected
        /\ location_outbox' = r.outbox
        /\ finished_game' = r.finished
        /\ memr_op' = [Op("refresh") EXCEPT !.grew = r.outbox # location_outbox,
                                            !.same = snapshot_seen]
        /\ UNCHANGED <<memr_connected, memr_initiated_connect, goal_address,
                       outbox_index, missions_checked, side_missions_checked,
                       env_block, env_deref, snapshot_seen, informed_upto>>
        /\ UNCHANGED <<repl_vars, layout_vars, ctx_vars,
                 scan_vars, counter_vars>>

MemrRefresh ==
    /\ CanPoll
    /\ \E fail_at \in 0..NumReads(missions_checked, side_missions_checked) :
          force_memory_refresh(fail_at)

\* '/memr connect' (_cmd_memr) and the start-up trigger of run_game.
MemrRequestConnect ==
    /\ ~memr_initiated_connect
    /\ memr_initiated_connect' = TRUE
    /\ memr_op' = Op("request")
    /\ UNCHANGED <<memr_connected, goal_address, location_outbox, outbox_index,
                   finished_game, missions_checked, side_missions_checked,
                   env_block, env_deref, snapshot_seen, informed_upto>>
    /\ UNCHANGED <<repl_vars, layout_vars, ctx_vars,
                 scan_vars, counter_vars>>

\* ------------------------------------------------------------------ the game
\* The game appends a task it has not recorded yet to an array and bumps the
\* array's counter; the counter is the length of the sequence kept here.
GameCompleteMain ==
    /\ Len(missions_checked) < MaxMain
    /\ \E r \in MainRaw \ Range(missions_checked) :
          missions_checked' = Append(missions_checked, r)
    /\ snapshot_seen' = FALSE
    /\ memr_op' = Op("game")
    /\ UNCHANGED <<memr_connected, memr_initiated_connect, goal_address,
                   location_outbox, outbox_index, finished_game,
                   side_missions_checked, env_block, env_deref,
                   informed_upto>>
    /\ UNCHANGED <<repl_vars, layout_vars, ctx_vars,
                 scan_vars, counter_vars>>

GameCompleteSide ==
    /\ Len(side_missions_checked) < MaxSide
    /\ \E s \in SideRaw \ Range(side_missions_checked) :
          side_missions_checked' = Append(side_missions_checked, s)
    /\ snapshot_seen' = FALSE
    /\ memr_op' = Op("game")
    /\ UNCHANGED <<memr_connected, memr_initiated_connect, goal_address,
                   location_outbox, outbox_index, finished_game,
                   missions_checked, env_block, env_deref, informed_upto>>
    /\ UNCHANGED <<repl_vars, layout_vars, ctx_vars,
                 scan_vars, counter_vars>>

\* A new game (or a reloaded mod) starts with empty arrays.
GameReset ==
    /\ missions_checked # <<>> \/ side_missions_checked # <<>>
    /\ missions_checked' = <<>>
    /\ side_missions_checked' = <<>>
    /\ snapshot_seen' = FALSE
    /\ memr_op' = Op("game")
    /\ UNCHANGED <<memr_connected, memr_initiated_connect, goal_address,
                   location_outbox, outbox_index, finished_game,
                   env_block, env_deref, informed_upto>>
    /\ UNCHANGED <<repl_vars, layout_vars, ctx_vars,
                 scan_vars, counter_vars>>

\* ============================================================ REPL client
\* Jak2ReplClient runs on one asyncio event loop: a task runs without
\* interruption from one suspension point to the next.  The suspension
\* points kept here are open_connection/sleep/read of the greeting, the
\* contended acquire of the lock, writer.drain() of a request sent without
\* a response wait, the response wait, and the sleeps of the bootstrap
\* script.  task_pc holds where each task is suspended:
\*   "idle"      the tick task sleeps between two main_tick calls
\*   "none"      a command task is not running
\*   "greeting"  connect() waits for the socket and the greeting
\*   "hs_wait"   bootstrap step hs_step waits for the lock
\*   "hs_drain"  bootstrap step hs_step is written, the lock is held
\*   "hs_sleep"  the delay after bootstrap step hs_step
\*   "item_wait" send_form of item task_item[t] waits for the lock
\*   "inflight"  item task_item[t] is written, the lock is held, the task
\*               waits for the response
\*   "form_wait" send_form of a command's form waits for the lock
\*   "form_inflight"  the command's form is written, the lock is held, the
\*               task waits for the response
\* The tasks: run_repl_loop ("tick"), '/repl refresh' ("refresh"), and
\* '/repl test' or '/repl send' ("command").
Tasks == {"tick", "refresh", "command"}
Indices == 0..(MaxIndex - 1)
NoItem == 0 - 1

\* Item ids of the catalog and one id outside it.
key_item_table == 1..33
item_table == key_item_table
UnknownItem == 1000

\* The items the session assigns to the indices: all known, or with an
\* unknown id at index 1.
AllKnown == [i \in Indices |-> (i % 33) + 1]
WithUnknown == [i \in Indices |-> IF i = 1 THEN UnknownItem ELSE (i % 33) + 1]
Sessions == {AllKnown, WithUnknown}

BootstrapSteps == 8
\* The script with two steps exchanged.
BootstrapScript_swapped ==
    << "(lt)",
       "(mi)",
       "(set! *debug-segment* #t)",
       "(ap-set-connection-status! (ap-connection-status wait))",
       "(dotimes (i 1) (sound-play-by-name ...))",
       "(set! *debug-segment* #f)",
       "(set! *cheat-mode* #f)",
       "(ap-set-connection-status! (ap-connection-status ready))" >>

\* The forms connect() sends after the greeting, in order.
BootstrapScript ==
    << "(lt)",
       "(set! *debug-segment* #t)",
       "(mi)",
       "(ap-set-connection-status! (ap-connection-status wait))",
       "(dotimes (i 1) (sound-play-by-name ...))",
       "(set! *debug-segment* #f)",
       "(set! *cheat-mode* #f)",
       "(ap-set-connection-status! (ap-connection-status ready))" >>
FailureStatus == "(ap-set-connection-status! (ap-connection-status failure))"

\* repl_op: what the last step of the client did.  connect: how far a
\* connect attempt of the step got ("none": the step made none); send and
\* ok: how a send_form call that returned in the step ended and what it
\* returned ("none": no call returned).
\* rewrote: the step stored received items at indices below the cursor.
NoOp ==
    [connect |-> "none", send |-> "none", ok |-> FALSE, rewrote |-> FALSE]

\* How a send_form call can end once the lock is held.
SendOutcomes == {"write_error", "data", "empty", "timeout", "read_error"}
\* The same for a call with expect_response=False.
PostOutcomes == {"write_error", "sent"}

\* The connected flag after a send_form call that ended with `outcome`:
\* send_form reads the flag and never assigns it.
connected_after_send_dropping(connected, outcome) ==
    connected /\ outcome \notin {"write_error", "read_error"}
connected_after_send(connected, outcome) == connected

\* What send_form returns.
send_form_no_timeout(connected, outcome) ==
    connected /\ outcome \in {"sent", "data"}
send_form(connected, outcome) ==
    IF ~connected THEN FALSE
    ELSE IF outcome = "write_error" THEN FALSE
    ELSE IF outcome = "sent" THEN TRUE
    ELSE IF outcome = "data" THEN TRUE
    ELSE IF outcome = "empty" THEN FALSE
    ELSE IF outcome = "timeout" THEN TRUE
    ELSE FALSE

\* asyncio.Lock: acquire takes the lock at once only when nobody holds it
\* or waits for it; release hands it to the first waiter, if any.
lock_free_always(holder, waiters) == TRUE
lock_free(holder, waiters) == holder = "none" /\ waiters = <<>>

lock_release(waiters) ==
    IF waiters = <<>> THEN [holder |-> "none", waiters |-> <<>>]
    ELSE [holder |-> Head(waiters), waiters |-> Tail(waiters)]

\* The cursor after one send attempt (self.inbox_index += 1).
advance_skipping(index) == index + 2
advance(index) == index + 1

\* send_item_to_game refuses an id outside item_table without calling
\* send_form, so send_items passes such indices without suspending:
\* the first index from `index` on that is missing or holds a known id.
RECURSIVE skip_unknown(_, _)
skip_unknown(inbox, index) ==
    IF index \in DOMAIN inbox /\ inbox[index] \notin item_table
    THEN skip_unknown(inbox, advance(index))
    ELSE index

RECURSIVE attempted(_, _, _)
attempted(inbox, index, log) ==
    IF index \in DOMAIN inbox
    THEN IF inbox[index] \notin item_table
         THEN attempted(inbox, advance(index), Append(log, index))
         ELSE Append(log, index)
    ELSE log

\* send_items run by task t from cursor `index` up to its next suspension
\* point, with the lock in the state (holder, waiters); `done` is where the
\* task rests when the loop ends.
send_items(t, index, holder, waiters, done) ==
    LET stop == skip_unknown(item_inbox, index)
    IN  /\ inbox_index' = stop
        /\ attempts' = attempted(item_inbox, index, attempts)
        /\ IF stop \in DOMAIN item_inbox
           THEN /\ task_item' = [task_item EXCEPT ![t] = stop]
                /\ IF lock_free(holder, waiters)
                   THEN /\ lock_holder' = t
                        /\ lock_waiters' = waiters
                        /\ wire' = Append(wire, stop)
                        /\ task_pc' = [task_pc EXCEPT ![t] = "inflight"]
                   ELSE /\ lock_holder' = holder
                        /\ lock_waiters' = Append(waiters, t)
                        /\ wire' = wire
                        /\ task_pc' = [task_pc EXCEPT ![t] = "item_wait"]
           ELSE /\ task_item' = [task_item EXCEPT ![t] = NoItem]
                /\ lock_holder' = holder
                /\ lock_waiters' = waiters
                /\ wire' = wire
                /\ task_pc' = [task_pc EXCEPT ![t] = done]

\* send_form of bootstrap step k by the tick task (expect_response=False),
\* up to its first suspension point.
send_step(k, holder, waiters) ==
    /\ hs_step' = k
    /\ IF lock_free(holder, waiters)
       THEN /\ lock_holder' = "tick"
            /\ lock_waiters' = waiters
            /\ form_log' = Append(form_log, BootstrapScript[k])
            /\ task_pc' = [task_pc EXCEPT !["tick"] = "hs_drain"]
       ELSE /\ lock_holder' = holder
            /\ lock_waiters' = Append(waiters, "tick")
            /\ form_log' = form_log
            /\ task_pc' = [task_pc EXCEPT !["tick"] = "hs_wait"]

\* send_form of a form of a command task, up to its first suspension point.
send_command_form(holder, waiters) ==
    IF lock_free(holder, waiters)
    THEN /\ lock_holder' = "command"
         /\ lock_waiters' = waiters
         /\ task_pc' = [task_pc EXCEPT !["command"] = "form_inflight"]
    ELSE /\ lock_holder' = holder
         /\ lock_waiters' = Append(waiters, "command")
         /\ task_pc' = [task_pc EXCEPT !["command"] = "form_wait"]

\* '/repl connect' (_cmd_repl) and the start-up trigger of run_game.
ReplRequestConnect ==
    /\ ~repl_initiated_connect
    /\ repl_initiated_connect' = TRUE
    /\ repl_op' = NoOp
    /\ UNCHANGED <<repl_connected, item_inbox, inbox_index, session_items,
                   repl_ip, repl_port,
                   lock_holder, lock_waiters, task_pc, task_item, hs_step,
                   attempts, wire, form_log, hs_failed, command_stage>>
    /\ UNCHANGED <<memr_vars, layout_vars, ctx_vars,
                 scan_vars, counter_vars>>

\* The dispatcher's cursor after on_package: the handler stores items and
\* leaves inbox_index as it is.
cursor_after_package_past(index, first, last) == last + 1
cursor_after_package_resync(index, first, last) ==
    IF first < index THEN first ELSE index
cursor_after_package(index, first, last) == index

\* on_package("ReceivedItems"): the items of the event are stored at the
\* indices first .. last.
on_package(first, last) ==
    /\ item_inbox' = [i \in DOMAIN item_inbox \cup (first..last) |->
                         IF i \in first..last THEN session_items[i]
                         ELSE item_inbox[i]]
    /\ inbox_index' = cursor_after_package(inbox_index, first, last)
    /\ repl_op' = [NoOp EXCEPT !.rewrote = first < inbox_index]
    /\ UNCHANGED <<repl_connected, repl_initiated_connect,
                   session_items, repl_ip, repl_port,
                   lock_holder, lock_waiters, task_pc,
                   task_item, hs_step, attempts, wire, form_log, hs_failed,
                   command_stage>>
    /\ UNCHANGED <<memr_vars, layout_vars, ctx_vars,
                 scan_vars, counter_vars>>

Enqueue ==
    \E first \in Indices : \E last \in first..(MaxIndex - 1) :
        /\ (first..last) \ DOMAIN item_inbox # {}
        /\ on_package(first, last)

\* The session resynchronises: a ReceivedItems event that starts again at
\* index 0 and carries items the client already holds.
Resync ==
    /\ inbox_index > 0
    /\ \E last \in DOMAIN item_inbox : on_package(0, last)

\* main_tick calls connect() only when a connect was requested.
repl_should_connect_always(initiated) == TRUE
repl_should_connect(initiated) == initiated

\* The first ReceivedItems event of a session, with one item or two.
ReceivedInitialItems ==
    /\ item_inbox = <<>>
    /\ \E last \in {0, 1} : on_package(0, last)

\* connect() returns at once on a client that is connected.
connect_proceeds_always(connected) == TRUE
connect_proceeds(connected) == ~connected

\* main_tick calls send_items, and send_items enters its loop, only on a
\* connected client.
drain_allowed_always(connected) == TRUE
drain_allowed(connected) == connected

\* Jak2ReplClient.main_tick from its start to its first suspension point.
\* proc_found: gk.exe and goalc.exe are both running.
repl_main_tick(proc_found) ==
    /\ task_pc["tick"] = "idle"
    /\ repl_initiated_connect' = FALSE
    /\ repl_op' = [NoOp EXCEPT !.connect =
                      IF ~repl_should_connect(repl_initiated_connect) THEN "none"
                      ELSE IF ~connect_proceeds(repl_connected) THEN "already"
                      ELSE IF proc_found THEN "opened" ELSE "no_process"]
    /\ UNCHANGED <<repl_connected, item_inbox, session_items, repl_ip,
                   repl_port, hs_step, form_log, hs_failed, command_stage>>
    /\ IF repl_should_connect(repl_initiated_connect)
          /\ connect_proceeds(repl_connected) /\ proc_found
       THEN /\ task_pc' = [task_pc EXCEPT !["tick"] = "greeting"]
            /\ UNCHANGED <<inbox_index, lock_holder, lock_waiters, task_item,
                           attempts, wire>>
       ELSE IF drain_allowed(repl_connected)
       THEN send_items("tick", inbox_index, lock_holder, lock_waiters, "idle")
       ELSE UNCHANGED <<inbox_index, lock_holder, lock_waiters, task_pc,
                        task_item, attempts, wire>>
    /\ UNCHANGED <<memr_vars, layout_vars, ctx_vars,
                 scan_vars, counter_vars>>

ReplTick ==
    \E proc_found \in BOOLEAN :
        /\ proc_found \/ (repl_initiated_connect /\ ~repl_connected)
        /\ repl_main_tick(proc_found)

\* The check of the greeting: both substrings are in the welcome message.
greeting_ok_lenient(greeting) == greeting # "error"
greeting_ok(greeting) == greeting = "welcome"

\* connect() after the greeting is read (greeting = "welcome"), or after
\* open_connection or the read raised ("error"), or after another greeting
\* arrived ("other").  After "error" connect() calls send_form with the
\* failure status, which refuses to write while connected is False.
connect_greeting(greeting) ==
    /\ task_pc["tick"] = "greeting"
    /\ repl_op' = [NoOp EXCEPT !.connect = greeting]
    /\ UNCHANGED <<repl_initiated_connect, item_inbox, inbox_index,
                   session_items, repl_ip, repl_port,
                   task_item, attempts, wire, hs_failed,
                   command_stage>>
    /\ IF greeting_ok(greeting)
       THEN /\ repl_connected' = TRUE
            /\ send_step(1, lock_holder, lock_waiters)
       ELSE /\ repl_connected' = (greeting = "other" /\ repl_connected)
            /\ form_log' = IF greeting = "error" /\ send_form(FALSE, "sent")
                           THEN Append(form_log, FailureStatus)
                           ELSE form_log
            /\ task_pc' = [task_pc EXCEPT !["tick"] = "idle"]
            /\ UNCHANGED <<lock_holder, lock_waiters, hs_step>>
    /\ UNCHANGED <<memr_vars, layout_vars, ctx_vars,
                 scan_vars, counter_vars>>

ReplGreeting == \E greeting \in {"welcome", "other", "error"} :
                    connect_greeting(greeting)

\* A waiting task is handed the lock and writes its request.
LockGranted ==
    \E t \in Tasks :
        /\ lock_holder = t
        /\ task_pc[t] \in {"hs_wait", "item_wait", "form_wait"}
        /\ task_pc' = [task_pc EXCEPT ![t] =
                          IF task_pc[t] = "hs_wait" THEN "hs_drain"
                          ELSE IF task_pc[t] = "item_wait" THEN "inflight"
                          ELSE "form_inflight"]
        /\ wire' = IF task_pc[t] = "item_wait"
                   THEN Append(wire, task_item[t]) ELSE wire
        /\ form_log' = IF task_pc[t] = "hs_wait"
                       THEN Append(form_log, BootstrapScript[hs_step])
                       ELSE form_log
        /\ repl_op' = NoOp
        /\ UNCHANGED <<repl_connected, repl_initiated_connect, item_inbox,
                       inbox_index, session_items, repl_ip, repl_port,
                       lock_holder, lock_waiters,
                       task_item, hs_step, attempts, hs_failed, command_stage>>
        /\ UNCHANGED <<memr_vars, layout_vars, ctx_vars,
                 scan_vars, counter_vars>>

\* send_form of a bootstrap step returns (drained or raised): the lock is
\* released and the step's delay starts.
handshake_drained(outcome) ==
    /\ task_pc["tick"] = "hs_drain"
    /\ lock_holder' = lock_release(lock_waiters).holder
    /\ lock_waiters' = lock_release(lock_waiters).waiters
    /\ task_pc' = [task_pc EXCEPT !["tick"] = "hs_sleep"]
    /\ hs_failed' = (hs_failed \/ ~send_form(repl_connected, outcome))
    /\ repl_op' = [NoOp EXCEPT !.send = outcome,
                               !.ok = send_form(repl_connected, outcome)]
    /\ repl_connected' = connected_after_send(repl_connected, outcome)
    /\ UNCHANGED <<repl_initiated_connect, item_inbox,
                   inbox_index, session_items, repl_ip, repl_port,
                   task_item, hs_step,
                   attempts, wire, form_log, command_stage>>
    /\ UNCHANGED <<memr_vars, layout_vars, ctx_vars,
                 scan_vars, counter_vars>>

HandshakeDrained == \E outcome \in PostOutcomes : handshake_drained(outcome)

\* The delay of a bootstrap step ends: the next step is sent, or connect()
\* returns and main_tick goes on to send_items.
HandshakeSleepDone ==
    /\ task_pc["tick"] = "hs_sleep"
    /\ repl_op' = NoOp
    /\ UNCHANGED <<repl_connected, repl_initiated_connect, item_inbox,
                   session_items, repl_ip, repl_port, hs_failed, command_stage>>
    /\ IF hs_step < BootstrapSteps
       THEN /\ send_step(hs_step + 1, lock_holder, lock_waiters)
            /\ UNCHANGED <<inbox_index, task_item, attempts, wire>>
       ELSE /\ hs_step' = 0
            /\ form_log' = form_log
            /\ send_items("tick", inbox_index, lock_holder, lock_waiters, "idle")
    /\ UNCHANGED <<memr_vars, layout_vars, ctx_vars,
                 scan_vars, counter_vars>>

\* send_items after send_item_to_game has returned `success` for the item
\* at `index`: the cursor moves on whatever the result.
after_attempt_retry(index, success) == IF success THEN advance(index) ELSE index
after_attempt(index, success) == advance(index)

\* The response wait of an item request ends (response, empty read, timeout
\* or error): send_form releases the lock and returns, send_items advances
\* the cursor and goes round its loop.
item_responded(t, outcome) ==
    /\ task_pc[t] = "inflight"
    /\ repl_op' = [NoOp EXCEPT !.send = outcome,
                               !.ok = send_form(repl_connected, outcome)]
    /\ repl_connected' = connected_after_send(repl_connected, outcome)
    /\ UNCHANGED <<repl_initiated_connect, item_inbox,
                   session_items, repl_ip, repl_port,
                   hs_step, form_log, hs_failed, command_stage>>
    /\ send_items(t, after_attempt(inbox_index,
                                    send_form(repl_connected, outcome)),
                  lock_release(lock_waiters).holder,
                  lock_release(lock_waiters).waiters,
                  IF t = "tick" THEN "idle" ELSE "none")
    /\ UNCHANGED <<memr_vars, layout_vars, ctx_vars,
                 scan_vars, counter_vars>>

ItemResponded == \E t \in Tasks, outcome \in SendOutcomes :
                     item_responded(t, outcome)

\* '/repl refresh': force_item_refresh in a task of its own.
force_item_refresh ==
    /\ task_pc["refresh"] = "none"
    /\ repl_connected
    /\ Cardinality(DOMAIN item_inbox) - inbox_index > 0
    /\ repl_op' = NoOp
    /\ UNCHANGED <<repl_connected, repl_initiated_connect, item_inbox,
                   session_items, repl_ip, repl_port,
                   hs_step, form_log, hs_failed, command_stage>>
    /\ send_items("refresh", inbox_index, lock_holder, lock_waiters, "none")
    /\ UNCHANGED <<memr_vars, layout_vars, ctx_vars,
                 scan_vars, counter_vars>>

\* '/repl send <form>' (debug_send_command, one form) and '/repl test'
\* (test_connection, a second form when the first one succeeds), each in a
\* task of its own; command_stage is the number of forms the task may still
\* send, the one in hand included.
command_start(forms) ==
    /\ task_pc["command"] = "none"
    /\ repl_connected
    /\ command_stage' = forms
    /\ send_command_form(lock_holder, lock_waiters)
    /\ repl_op' = NoOp
    /\ UNCHANGED <<repl_connected, repl_initiated_connect, item_inbox,
                   inbox_index, session_items, repl_ip, repl_port,
                   task_item, hs_step, attempts,
                   wire, form_log, hs_failed>>
    /\ UNCHANGED <<memr_vars, layout_vars, ctx_vars,
                 scan_vars, counter_vars>>

CommandStart == \E forms \in {1, 2} : command_start(forms)

command_responded(outcome) ==
    /\ task_pc["command"] = "form_inflight"
    /\ repl_op' = [NoOp EXCEPT !.send = outcome,
                               !.ok = send_form(repl_connected, outcome)]
    /\ IF command_stage = 2 /\ send_form(repl_connected, outcome)
       THEN /\ command_stage' = 1
            /\ send_command_form(lock_release(lock_waiters).holder,
                                 lock_release(lock_waiters).waiters)
       ELSE /\ command_stage' = 0
            /\ lock_holder' = lock_release(lock_waiters).holder
            /\ lock_waiters' = lock_release(lock_waiters).waiters
            /\ task_pc' = [task_pc EXCEPT !["command"] = "none"]
    /\ repl_connected' = connected_after_send(repl_connected, outcome)
    /\ UNCHANGED <<repl_initiated_connect, item_inbox,
                   inbox_index, session_items, repl_ip, repl_port,
                   task_item, hs_step, attempts,
                   wire, form_log, hs_failed>>
    /\ UNCHANGED <<memr_vars, layout_vars, ctx_vars,
                 scan_vars, counter_vars>>

CommandResponded == \E outcome \in SendOutcomes : command_responded(outcome)

\* ============================================================ OffsetFactory
\* The cursor moved up to the next multiple of size.
align_none(offset, size) == offset
align(offset, size) ==
    LET bytes_to_alignment == offset % size
    IN  IF bytes_to_alignment # 0 THEN offset + (size - bytes_to_alignment)
        ELSE offset

\* OffsetFactory.define: the offset it returns and the cursor it leaves.
define_ignoring_length(offset, size, length) ==
    [offset_to_use |-> align(offset, size),
     current_offset |-> align(offset, size) + size]
define(offset, size, length) ==
    [offset_to_use |-> align(offset, size),
     current_offset |-> align(offset, size) + (size * length)]

\* The define() calls of the module, <<size, length>> each, in order.
ap_info_jak2 ==
    << <<sizeof_uint32, 1>>, <<sizeof_uint64, 1>>, <<sizeof_uint64, 1>>,
       <<sizeof_uint32, 70>>, <<sizeof_uint32, 24>>, <<sizeof_uint32, 1>>,
       <<sizeof_uint8, 4>> >>
\* The same without the connection status field that version 2 added.
ap_info_jak2_v1 ==
    << <<sizeof_uint32, 1>>, <<sizeof_uint64, 1>>, <<sizeof_uint64, 1>>,
       <<sizeof_uint32, 70>>, <<sizeof_uint32, 24>>, <<sizeof_uint8, 4>> >>

Sizes == {sizeof_uint8, sizeof_uint32, sizeof_uint64}
Lengths == {1, 2, 3, 4, 24, 70}

IsPrefix(s, t) == Len(s) <= Len(t) /\ s = SubSeq(t, 1, Len(s))
Calls(d) == [k \in 1..Len(d) |-> <<d[k].size, d[k].length>>]

\* One define() call on the factory.  Call sequences are of any shape up to
\* MaxDefines calls, and go on only as the module's own.
Define ==
    \E size \in Sizes, length \in Lengths :
        LET r == define(current_offset, size, length)
            calls == Append(Calls(defined), <<size, length>>)
        IN  /\ \/ Len(calls) <= MaxDefines
               \/ IsPrefix(calls, ap_info_jak2)
               \/ IsPrefix(calls, ap_info_jak2_v1)
            /\ current_offset' = r.current_offset
            /\ defined' = Append(defined,
                                 [size |-> size, length |-> length,
                                  before |-> current_offset,
                                  offset |-> r.offset_to_use,
                                  after |-> r.current_offset])
            /\ UNCHANGED <<memr_vars, repl_vars, ctx_vars,
                 scan_vars, counter_vars>>

\* ------------------------------------------------------------ marker blocks
Ptr(b) == [i \in 1..8 |-> IF i = 2 THEN b ELSE 0]
PtrBytes == {0, 8, 16, 32}
FillBytes == {0, 1}
MakeBlock(T, p, fill) ==
    [o \in marker_length_in_cpp..(block_size - 1) |->
        IF o \in T..(T + 7) THEN p[o - T + 1] ELSE fill]
Blocks == {MakeBlock(T, Ptr(b), f) : T \in Offsets, b \in PtrBytes, f \in FillBytes}
Contents == {<<>>, <<1>>, <<2>>}
\* One address holds one content; an address never dereferenced is left <<>>.
Derefs(block) ==
    {d \in [Offsets -> Contents] :
        /\ \A o \in Offsets : ~looks_valid(pointer_bytes(block, o)) => d[o] = <<>>
        /\ \A o1, o2 \in Offsets :
              pointer_bytes(block, o1) = pointer_bytes(block, o2) => d[o1] = d[o2]}

GoodBlock == MakeBlock(24, Ptr(16), 0)
GoodDeref == [o \in Offsets |-> IF o = 24 THEN <<2>> ELSE <<>>]

\* ------------------------------------------------------------ specifications
InitMemr ==
    /\ memr_connected = FALSE
    /\ memr_initiated_connect = FALSE
    /\ goal_address = None
    /\ location_outbox = <<>>
    /\ outbox_index = 0
    /\ finished_game = FALSE
    /\ memr_op = Op("none")
    /\ snapshot_seen = FALSE
    /\ informed_upto = 0

InitRepl ==
    /\ repl_connected = FALSE
    /\ repl_initiated_connect = FALSE
    /\ item_inbox = <<>>
    /\ inbox_index = 0
    /\ lock_holder = "none"
    /\ lock_waiters = <<>>
    /\ task_pc = [t \in Tasks |-> IF t = "tick" THEN "idle" ELSE "none"]
    /\ form_log = <<>>
    /\ hs_failed = FALSE
    /\ repl_op = NoOp
    /\ command_stage = 0
    /\ repl_ip = default_ip
    /\ repl_port = default_port
    /\ task_item = [t \in Tasks |-> NoItem]
    /\ hs_step = 0
    /\ attempts = <<>>
    /\ wire = <<>>

InitLayout ==
    /\ current_offset = 0
    /\ defined = <<>>

InitCtx ==
    /\ ctx_finished_game = FALSE
    /\ finish_sending = 0
    /\ status_updates = 0

\* The usual process: one module, holding the marker.
InitScan ==
    /\ gk_list_ok = TRUE
    /\ gk_modules = << <<"found", "found">> >>
    /\ marker = NoMarker

\* No poll has read the counters or an entry yet.
NoReads == [main |-> {}, side |-> {}]

InitCounters ==
    /\ next_mission_idx = 0
    /\ next_side_mission_idx = 0
    /\ entry_reads = NoReads

InitPoller ==
    /\ InitMemr
    /\ InitRepl
    /\ InitLayout
    /\ InitCtx
    /\ InitScan
    /\ InitCounters
    /\ server_open = FALSE
    /\ session_items = AllKnown
    /\ missions_checked = <<>>
    /\ side_missions_checked = <<>>
    /\ env_block = GoodBlock
    /\ env_deref = GoodDeref

NextPoller ==
    \/ MemrRequestConnect
    \/ MemrTick
    \/ MemrRefresh
    \/ GameCompleteMain
    \/ GameCompleteSide
    \/ GameReset

SpecPoller == InitPoller /\ [][NextPoller]_vars

InitConnect ==
    /\ InitMemr
    /\ InitRepl
    /\ InitLayout
    /\ InitCtx
    /\ InitScan
    /\ InitCounters
    /\ server_open = FALSE
    /\ session_items = AllKnown
    /\ missions_checked = <<>>
    /\ side_missions_checked = <<>>
    /\ env_block \in Blocks
    /\ env_deref \in Derefs(env_block)

NextConnect ==
    \/ MemrRequestConnect
    \/ MemrTick

SpecConnect == InitConnect /\ [][NextConnect]_vars

\* The dispatcher with the periodic tick as the only task that drains.
InitReplClient ==
    /\ InitMemr
    /\ missions_checked = <<>>
    /\ side_missions_checked = <<>>
    /\ env_block = GoodBlock
    /\ env_deref = GoodDeref
    /\ InitRepl
    /\ InitLayout
    /\ InitCtx
    /\ InitScan
    /\ InitCounters
    /\ server_open = FALSE
    /\ session_items \in Sessions

\* The structure layout: define() calls on a fresh OffsetFactory.
NextLayout == Define

SpecLayout == InitPoller /\ [][NextLayout]_vars

NextReplSingle ==
    \/ ReplRequestConnect
    \/ Enqueue
    \/ ReplTick
    \/ ReplGreeting
    \/ HandshakeDrained
    \/ HandshakeSleepDone
    \/ ItemResponded

SpecReplSingle == InitReplClient /\ [][NextReplSingle]_vars

\* The same, with a session that resynchronises.
NextResync ==
    \/ NextReplSingle
    \/ Resync

SpecResync == InitReplClient /\ [][NextResync]_vars

\* The dispatcher with the tick and the '/repl refresh' command task.
NextRepl ==
    \/ NextReplSingle
    \/ force_item_refresh
    \/ LockGranted

SpecRepl == InitReplClient /\ [][NextRepl]_vars

\* The dispatcher with every task that calls send_form.
NextReplTasks ==
    \/ NextRepl
    \/ CommandStart
    \/ CommandResponded

SpecReplTasks == InitReplClient /\ [][NextReplTasks]_vars

\* The REPL client with the '/repl refresh' task under the scheduling the
\* event loop gives: run_repl_loop ticks forever, every awaited read, drain
\* and sleep returns, and a released lock is handed to its first waiter.
FairRepl ==
    /\ WF_vars(ReplTick)
    /\ WF_vars(ReplGreeting)
    /\ WF_vars(HandshakeDrained)
    /\ WF_vars(HandshakeSleepDone)
    /\ WF_vars(ItemResponded)
    /\ WF_vars(LockGranted)

FairSpecRepl == InitReplClient /\ [][NextRepl]_vars /\ FairRepl
FairSpecReplSingle == InitReplClient /\ [][NextReplSingle]_vars /\ FairRepl

\* The poller and the orchestrator's finish notification, with and without
\* an open session socket.
InitFinish ==
    /\ InitMemr
    /\ missions_checked = <<>>
    /\ side_missions_checked = <<>>
    /\ env_block = GoodBlock
    /\ env_deref = GoodDeref
    /\ InitRepl
    /\ InitLayout
    /\ session_items = AllKnown
    /\ InitCtx
    /\ InitScan
    /\ InitCounters
    /\ server_open \in BOOLEAN

NextFinish ==
    \/ MemrRequestConnect
    \/ MemrTick
    \/ GameCompleteMain
    \/ FinishSent

SpecFinish == InitFinish /\ [][NextFinish]_vars

\* Both agents with traffic in both directions: the session enqueues items,
\* the game has recorded the final-boss task.
InitAgents ==
    /\ InitMemr
    /\ missions_checked = <<FinalBossTask>>
    /\ side_missions_checked = <<>>
    /\ env_block = GoodBlock
    /\ env_deref = GoodDeref
    /\ InitRepl
    /\ InitLayout
    /\ session_items = AllKnown
    /\ InitCtx
    /\ InitScan
    /\ InitCounters
    /\ server_open = FALSE

NextAgents ==
    \/ MemrRequestConnect
    \/ MemrTick
    \/ ReplRequestConnect
    \/ ReplTick
    \/ ReplGreeting
    \/ HandshakeDrained
    \/ HandshakeSleepDone
    \/ ReceivedInitialItems
    \/ ItemResponded

SpecAgents == InitAgents /\ [][NextAgents]_vars

\* Both agents connecting, over a game whose marker block resolves and one
\* whose marker block does not, with no mission and no item traffic.
BadBlock == MakeBlock(24, Ptr(8), 0)
BadDeref == [o \in Offsets |-> <<>>]

InitReconnect ==
    /\ InitMemr
    /\ missions_checked = <<>>
    /\ side_missions_checked = <<>>
    /\ env_block \in {GoodBlock, BadBlock}
    /\ env_deref = IF env_block = GoodBlock THEN GoodDeref ELSE BadDeref
    /\ InitRepl
    /\ InitLayout
    /\ InitCtx
    /\ InitScan
    /\ InitCounters
    /\ server_open = FALSE
    /\ session_items = AllKnown

NextReconnect ==
    \/ MemrRequestConnect
    \/ MemrTick
    \/ ReplRequestConnect
    \/ ReplTick
    \/ ReplGreeting
    \/ HandshakeDrained
    \/ HandshakeSleepDone

SpecReconnect == InitReconnect /\ [][NextReconnect]_vars

\* The entries one poll reads when no read raises, for the counter values
\* it has read from the game's memory.
ReadMissionEntries ==
    /\ entry_reads' =
          [main |-> main_entry_indices(next_mission_idx),
           side |-> side_entry_indices(next_side_mission_idx)]
    /\ UNCHANGED <<next_mission_idx, next_side_mission_idx>>
    /\ UNCHANGED <<memr_vars, repl_vars, layout_vars, ctx_vars, scan_vars>>

InitExtent ==
    /\ InitMemr
    /\ missions_checked = <<>>
    /\ side_missions_checked = <<>>
    /\ env_block = GoodBlock
    /\ env_deref = GoodDeref
    /\ InitRepl
    /\ InitLayout
    /\ InitCtx
    /\ InitScan
    /\ server_open = FALSE
    /\ session_items = AllKnown
    /\ next_mission_idx \in 0..MaxCounter
    /\ next_side_mission_idx \in 0..MaxCounter
    /\ entry_reads = NoReads

NextExtent == ReadMissionEntries

SpecExtent == InitExtent /\ [][NextExtent]_vars

\* The reader connecting to a process whose module list is scanned.
\* The second marker variant is the first one followed by a null byte, so
\* a module holding the second holds the first (its scan may still raise).
Modules ==
    {o \in [1..Len(markers_to_test) -> ScanOutcomes] :
        o[2] = "found" => o[1] # "absent"}

ModuleLists == UNION {[1..n -> Modules] : n \in 0..MaxModules}

\* A tick with a connect request pending, the process found: the scan of
\* connect() step 2 answers from the module list, the later steps as drawn.
MemrScanTick ==
    /\ memr_initiated_connect
    /\ CanPoll
    /\ LET r == scan_modules_for_marker(gk_list_ok, gk_modules)
       IN  /\ \E block_ok \in BOOLEAN, reread \in Rereads,
                 send \in SendMsgsOutcomes :
                 main_tick(<<TRUE, r.found, block_ok, reread>>,
                           TRUE, 0, send)
           /\ marker' = IF r.found THEN r ELSE marker
    /\ UNCHANGED <<gk_list_ok, gk_modules>>
    /\ UNCHANGED counter_vars

InitScanning ==
    /\ InitMemr
    /\ missions_checked = <<>>
    /\ side_missions_checked = <<>>
    /\ env_block = GoodBlock
    /\ env_deref = GoodDeref
    /\ InitRepl
    /\ InitLayout
    /\ InitCtx
    /\ server_open = FALSE
    /\ session_items = AllKnown
    /\ gk_list_ok \in BOOLEAN
    /\ gk_modules \in ModuleLists
    /\ marker = NoMarker
    /\ InitCounters

NextScan ==
    \/ MemrRequestConnect
    \/ MemrScanTick

SpecScan == InitScanning /\ [][NextScan]_vars

\* ======================================================= properties, poller
\* A step read mission counters or mission-array entries: a poll
\* (read_memory) or the counter reads of a successful verification.
MissionRead(op) == op.kind \in {"polled", "refresh"} \/ op.connect = "ready"

\* The last step was a tick whose poll met no read error.
PolledClean == memr_op.kind = "polled" /\ snapshot_seen

\* C2: the outbox never holds a LocationId twice.
C2_OutboxNoDuplicates ==
    \A i, j \in 1..Len(location_outbox) :
        i # j => location_outbox[i] # location_outbox[j]

\* C3: a tick that polls memory unchanged since the previous tick's poll
\* appends nothing to the outbox and passes nothing upstream again.
C3_PollIdempotent ==
    (memr_op.kind = "polled" /\ memr_op.same)
        => (~memr_op.grew /\ ~memr_op.re_informed)

\* C5: finished_game is set by the poll that finds raw 70 in the main array
\* and, once set, is never cleared by any later step.
C5_FinishedLatch ==
    /\ [](PolledClean /\ FinalBossTask \in Range(missions_checked)
            => finished_game)
    /\ [][finished_game => finished_game']_vars

\* C5 witness: the flag is still set after a later clean poll of an array
\* that no longer holds 70.
C5_Witness ==
    /\ finished_game
    /\ PolledClean
    /\ FinalBossTask \notin Range(missions_checked)

\* C6: after a clean poll every mapped raw main identifier r in the array
\* has its LocationId r-5 in the outbox.
C6_MainLocationsPresent ==
    PolledClean =>
        \A i \in 1..Len(missions_checked) :
            missions_checked[i] \in DOMAIN GAME_TASK_TO_MISSION_ID
                => GAME_TASK_TO_MISSION_ID[missions_checked[i]]
                       \in Range(location_outbox)

\* C7: after a clean poll every cataloged raw side identifier s in the array
\* has its LocationId s+100 in the outbox.
C7_SideLocationsPresent ==
    PolledClean =>
        \A i \in 1..Len(side_missions_checked) :
            side_missions_checked[i] \in side_mission_table
                => side_missions_checked[i] + SideOffset
                       \in Range(location_outbox)

\* ---------------------------------------------- properties, connect pipeline
\* pointer >= 0x1000 stated on the value: the low two bytes reach 4096 or a
\* higher byte is set.
AtLeast4096(p) == p[1] + 256 * p[2] >= 4096 \/ \E i \in 3..8 : p[i] > 0

\* The hypothesis at pointer offset o validates.
Validates(o) ==
    /\ AtLeast4096(pointer_bytes(env_block, o))
    /\ env_deref[o] = <<expected_memory_version>>

\* The connect attempt of the last step got past pointer resolution.
Resolved == memr_op.connect \in {"ready", "version_mismatch", "version_error"}

\* The connect attempt of the last step read a version field that differs
\* from the expected one: in every candidate block it could read, or in the
\* verification of the resolved block.
VersionDiffers ==
    \/ memr_op.connect = "version_mismatch"
    \/ /\ memr_op.connect = "no_pointer"
       /\ \E o \in Offsets :
             /\ AtLeast4096(pointer_bytes(env_block, o))
             /\ env_deref[o] # <<>>

C9_FirstHypothesisWins ==
    Resolved =>
        \E o \in Offsets :
            /\ Validates(o)
            /\ \A o2 \in Offsets : o2 < o => ~Validates(o2)
            /\ goal_address = pointer_bytes(env_block, o)

\* C9 witness: a block whose pointer sits at the 4-byte aligned offset is
\* resolved to that pointer and the reader is ready.
C9_Witness ==
    /\ memr_op.connect = "ready"
    /\ env_block = MakeBlock(20, Ptr(16), 0)
    /\ goal_address = Ptr(16)
    /\ memr_connected

\* C10: when no hypothesis validates, the connect attempt ends before the
\* version verification with the reader disconnected.
C10_NoHypothesisFails ==
    (memr_op.connect # "none" /\ \A o \in Offsets : ~Validates(o))
        => /\ ~Resolved
           /\ ~memr_connected
           /\ memr_op.kind = "idle"

C10_Witness ==
    /\ memr_op.connect = "no_pointer"
    /\ \A o \in Offsets : ~Validates(o)
    /\ \E o \in Offsets : env_deref[o] = <<1>>
    /\ ~memr_connected


\* =================================================== properties, dispatcher
IsKnown(i) == session_items[i] \in item_table

\* C1: with the tick as the only drainer, the indices handed on for sending
\* are 0, 1, 2, ... in consecutive order, each a key of the inbox (nothing
\* above a gap), the item commands on the socket are exactly those of them
\* with a catalog id, in the same order, and a drain ends only at a cursor
\* that is not a key of the inbox.
C1_DrainInOrder ==
    /\ [](/\ \A k \in 1..Len(attempts) : attempts[k] = k - 1
          /\ \A k \in 1..Len(attempts) : attempts[k] \in DOMAIN item_inbox
          /\ wire = SelectSeq(attempts, IsKnown)
          /\ \A k \in 1..Len(wire) : \A j \in 0..wire[k] : j \in DOMAIN item_inbox)
    /\ [][task_pc["tick"] = "inflight" /\ task_pc'["tick"] = "idle"
            => inbox_index' \notin DOMAIN item_inbox']_vars

\* C1 witness: with keys {0,1,2,4} the drain has sent 0, 1, 2 and rests at
\* the gap, with 4 withheld.
C1_Witness ==
    /\ repl_connected
    /\ DOMAIN item_inbox = {0, 1, 2, 4}
    /\ attempts = <<0, 1, 2>>
    /\ wire = <<0, 1, 2>>
    /\ inbox_index = 3
    /\ task_pc["tick"] = "idle"

\* C4: no inbox index has its item command written to the socket twice.
C4_AtMostOncePerIndex ==
    \A i, j \in 1..Len(wire) : i # j => wire[i] # wire[j]

\* ======================================================= properties, layout
\* C11: over every sequence of define() calls from cursor 0, the returned
\* offsets never decrease, each is a multiple of its call's size and is the
\* least such multiple not below the cursor before the call, and the cursor
\* after the call is offset + size * length.
C11_DefineAligns ==
    /\ \A k \in 1..Len(defined) :
          LET d == defined[k]
          IN  /\ d.offset % d.size = 0
              /\ d.offset >= d.before
              /\ d.offset - d.before < d.size
              /\ d.after = d.offset + d.size * d.length
              /\ d.before = IF k = 1 THEN 0 ELSE defined[k - 1].after
    /\ \A j, k \in 1..Len(defined) : j < k => defined[j].offset <= defined[k].offset
    /\ current_offset = IF defined = <<>> THEN 0 ELSE defined[Len(defined)].after

\* C11 witness: a call that had to pad, after a call of another size.
C11_Witness ==
    /\ Len(defined) >= 2
    /\ defined[2].size = sizeof_uint64
    /\ defined[2].before = 3
    /\ defined[2].offset = 8

\* C12: the six declarations without the status field get the offsets
\* 0, 8, 16, 24, 304, 400 and a total of 404 bytes; the module's seven get
\* 0, 8, 16, 24, 304, 400, 404 and a total of 408 bytes.
C12_LayoutOffsets ==
    /\ Calls(defined) = << <<4, 1>>, <<8, 1>>, <<8, 1>>, <<4, 70>>, <<4, 24>>, <<1, 4>> >>
          => /\ [k \in 1..6 |-> defined[k].offset] = <<0, 8, 16, 24, 304, 400>>
             /\ current_offset = 404
    /\ Calls(defined) = << <<4, 1>>, <<8, 1>>, <<8, 1>>, <<4, 70>>, <<4, 24>>, <<4, 1>>, <<1, 4>> >>
          => /\ [k \in 1..7 |-> defined[k].offset] = <<0, 8, 16, 24, 304, 400, 404>>
             /\ current_offset = 408

\* C12 witness: the module's seven declarations are made.
C12_Witness ==
    /\ Calls(defined) = ap_info_jak2
    /\ current_offset = 408

\* ==================================================== properties, transport
InFlight(t) == task_pc[t] \in {"inflight", "hs_drain", "form_inflight"}

\* C13: at most one request is in flight: of the tick (drain or bootstrap
\* script), '/repl refresh' and '/repl test' or '/repl send', at most one
\* task has written a request and not finished its send_form call, and that
\* task holds the lock.
C13_SingleFlight ==
    /\ \A t1, t2 \in Tasks : InFlight(t1) /\ InFlight(t2) => t1 = t2
    /\ \A t \in Tasks : InFlight(t) => lock_holder = t

\* C13 witness: one request in flight while two other tasks wait to send.
C13_Witness ==
    /\ InFlight("tick")
    /\ task_pc["refresh"] = "item_wait"
    /\ task_pc["command"] = "form_wait"

BootstrapOrder ==
    << "(lt)",
       "(set! *debug-segment* #t)",
       "(mi)",
       "(ap-set-connection-status! (ap-connection-status wait))",
       "(dotimes (i 1) (sound-play-by-name ...))",
       "(set! *debug-segment* #f)",
       "(set! *cheat-mode* #f)",
       "(ap-set-connection-status! (ap-connection-status ready))" >>

Bootstrapping == task_pc["tick"] \in {"hs_wait", "hs_drain", "hs_sleep"}

\* C15: the bootstrap commands on the socket are always a prefix of the
\* fixed order; step k is written only once the delay after step k-1 has
\* ended; a step whose send fails is followed by its delay like any other;
\* and when connect() has returned on a connected client all eight are
\* written.
C15_BootstrapInOrder ==
    /\ [](IsPrefix(form_log, BootstrapOrder))
    /\ [](repl_connected /\ ~Bootstrapping => form_log = BootstrapOrder)
    /\ [][form_log' # form_log =>
            /\ form_log' = SubSeq(BootstrapOrder, 1, Len(form_log) + 1)
            /\ \/ Len(form_log) = 0 /\ task_pc["tick"] \in {"greeting", "hs_wait"}
               \/ /\ Len(form_log) > 0
                  /\ \/ task_pc["tick"] = "hs_sleep" /\ hs_step = Len(form_log)
                     \/ task_pc["tick"] = "hs_wait" /\ hs_step = Len(form_log) + 1]_vars
    /\ [][task_pc["tick"] # "hs_wait" /\ task_pc'["tick"] = "hs_wait"
            => task_pc["tick"] \in {"greeting", "hs_sleep"}]_vars
    /\ [][task_pc["tick"] = "hs_drain" /\ task_pc'["tick"] # "hs_drain"
            => task_pc'["tick"] = "hs_sleep" /\ repl_connected']_vars

\* C15 witness: all eight commands are written although a step failed.
C15_Witness ==
    /\ form_log = BootstrapOrder
    /\ hs_failed
    /\ task_pc["tick"] = "idle"

\* C16: a greeting without the two substrings leaves the client not
\* connected, and a client that is not connected has written no bootstrap
\* command and no item command.
C16_GreetingMismatch ==
    /\ repl_op.connect = "other" => ~repl_connected /\ task_pc["tick"] = "idle"
    /\ ~repl_connected => form_log = <<>> /\ wire = <<>> /\ attempts = <<>>

\* C16 witness: the greeting was refused while items wait in the inbox.
C16_Witness ==
    /\ repl_op.connect = "other"
    /\ ~repl_connected
    /\ 0 \in DOMAIN item_inbox

\* C17: after a greeting without the two substrings the failure status
\* command has been written to the socket.
C17_FailureStatusWritten ==
    repl_op.connect = "other" =>
        form_log # <<>> /\ form_log[Len(form_log)] = FailureStatus

\* ================================================= properties, reconnection
\* C18: neither agent connects on its own.  A step is a connect attempt of
\* the poller only if a request was pending, and it consumes the request;
\* the poller's connected flag rises only in an attempt that ends ready; its
\* request flag rises only by a request.  The same for the REPL client: a
\* tick starts an attempt only on a pending request and consumes it, the
\* greeting is only awaited in such an attempt, connected rises only when
\* the greeting of the attempt is accepted, and the flag rises only by a
\* request.
C18_NoAutomaticReconnect ==
    /\ [][memr_vars' # memr_vars /\ memr_op'.connect # "none"
            => memr_initiated_connect /\ ~memr_initiated_connect']_vars
    /\ [][~memr_connected /\ memr_connected'
            => memr_initiated_connect /\ memr_op'.connect = "ready"]_vars
    /\ [][~memr_initiated_connect /\ memr_initiated_connect'
            => MemrRequestConnect]_vars
    /\ [][repl_vars' # repl_vars /\ task_pc["tick"] = "idle"
             /\ repl_op'.connect # "none"
            => repl_initiated_connect /\ ~repl_initiated_connect']_vars
    /\ [][task_pc["tick"] # "greeting" /\ task_pc'["tick"] = "greeting"
            => repl_initiated_connect /\ ~repl_initiated_connect'
               /\ task_pc["tick"] = "idle"]_vars
    /\ [][~repl_connected /\ repl_connected'
            => task_pc["tick"] = "greeting" /\ repl_op'.connect = "welcome"]_vars
    /\ [][~repl_initiated_connect /\ repl_initiated_connect'
            => ReplRequestConnect]_vars

\* C18 witness: both agents sit disconnected after a failed attempt each,
\* with no request pending, and the poller's tick has just done nothing.
C18_Witness ==
    /\ ~memr_connected /\ ~memr_initiated_connect
    /\ goal_address # None
    /\ memr_op.kind = "idle" /\ memr_op.connect = "none"
    /\ ~repl_connected /\ ~repl_initiated_connect
    /\ repl_op.connect = "other"

Pending(i) ==
    /\ repl_connected
    /\ IsKnown(i)
    /\ inbox_index <= i
    /\ \A j \in inbox_index..i : j \in DOMAIN item_inbox

\* C20: under fair scheduling, every index that is pending is eventually
\* written to the transport.
C20_EventualDelivery ==
    \A i \in Indices : Pending(i) ~> (i \in Range(wire))

\* ================================================ properties, finish signal
\* C21: the goal-completed StatusUpdate is handed to the session at most
\* once, however the finish-notification tasks interleave.
C21_GoalSentAtMostOnce == status_updates <= 1

\* ============================================ properties, construction, flow
\* C22: both agents start disconnected with no request pending and the REPL
\* client targets 127.0.0.1:8181; a tick of a disconnected agent with no
\* request pending does no process, memory or socket I/O and changes nothing
\* (the record of the latest step aside).
C22_FreshAgentsIdle ==
    /\ ~memr_connected /\ ~memr_initiated_connect
    /\ ~repl_connected /\ ~repl_initiated_connect
    /\ repl_ip = "127.0.0.1" /\ repl_port = 8181
    /\ [][~memr_connected /\ ~memr_initiated_connect
             /\ memr_vars' # memr_vars
             /\ memr_op'.kind \in {"idle", "probe_failed", "polled"}
            => /\ memr_op' = Op("idle")
               /\ UNCHANGED <<memr_connected, memr_initiated_connect,
                              goal_address, location_outbox, outbox_index,
                              finished_game, informed_upto, ctx_vars>>]_vars
    /\ [][~repl_connected /\ ~repl_initiated_connect
             /\ task_pc["tick"] = "idle"
            => \/ UNCHANGED repl_vars
               \/ ReplRequestConnect
               \/ ReceivedInitialItems
               \/ /\ repl_op' = NoOp
                  /\ UNCHANGED <<repl_connected, repl_initiated_connect,
                                 item_inbox, inbox_index, lock_holder,
                                 lock_waiters, task_pc, task_item, hs_step,
                                 attempts, wire, form_log, repl_ip,
                                 repl_port>>]_vars

\* C22 witness: both agents have ticked with nothing requested, while an
\* item waits in the inbox and the game holds a completed task.
C22_Witness ==
    /\ memr_op = Op("idle")
    /\ repl_op = NoOp
    /\ goal_address = None
    /\ form_log = <<>>
    /\ ~repl_connected /\ ~repl_initiated_connect
    /\ ~memr_connected /\ ~memr_initiated_connect
    /\ 0 \in DOMAIN item_inbox
    /\ missions_checked # <<>>

\* C23: an item command is written to the game, and a location or finish
\* report is passed upstream, only while both agents are connected.
C23_TrafficOnlyWhenBothReady ==
    /\ [][wire' # wire => memr_connected /\ repl_connected]_vars
    /\ [][memr_vars' # memr_vars /\ (memr_op'.informed \/ memr_op'.finish)
            => memr_connected' /\ repl_connected]_vars

\* ==================================================== properties, the cursor
\* C24: every index behind the cursor has been enqueued (the inbox never
\* loses a key, so an index enqueued when the cursor passed it still is).
C24_CursorBehindEnqueued ==
    \A j \in 0..(inbox_index - 1) : j \in DOMAIN item_inbox

\* Draining(t): task t has passed an index to send_item_to_game and the call
\* has not returned yet.
Draining(t) == task_pc[t] \in {"inflight", "item_wait"}

\* C25: the cursor counts the finished send attempts, successful or not:
\* every attempt that has returned has advanced it by exactly one; a
\* response of any outcome moves it forward; it never moves back, and no
\* attempt starts at an index behind it, so a failed index is not retried.
C25_AdvanceWhateverResult ==
    /\ [](inbox_index + Cardinality({t \in Tasks : Draining(t)}) = Len(attempts))
    /\ [][inbox_index' >= inbox_index]_vars
    /\ [][\A k \in (Len(attempts) + 1)..Len(attempts') :
             attempts'[k] >= inbox_index]_vars
    /\ [][\A t \in Tasks :
             task_pc[t] = "inflight" /\ task_pc'[t] # "inflight"
                 => inbox_index' > inbox_index]_vars

\* C25 witness: an item request has just failed, an unknown item was passed
\* over, and the cursor stands behind both.
C25_Witness ==
    /\ repl_op.send \in {"write_error", "empty", "read_error"}
    /\ ~repl_op.ok
    /\ \E k \in 1..Len(attempts) : ~IsKnown(attempts[k])
    /\ \E k \in 1..Len(wire) : wire[k] < inbox_index
    /\ inbox_index = Len(attempts)

\* ========================================== properties, handshake and items
\* C26: whenever an item command has been written to the peer, the last
\* command of the bootstrap script (status 'ready') has been written.
C26_ItemsAfterReady ==
    wire # <<>> => BootstrapScript[BootstrapSteps] \in Range(form_log)

\* ================================================ properties, read failures
\* A tick met a read failure: the probe raised, or a read of the poll did.
ReadFailed(op, seen) ==
    op.kind = "probe_failed" \/ (op.kind = "polled" /\ ~seen)

\* C27: a tick that meets a memory read failure (probe, counter or array
\* entry) ends with the poller disconnected.
C27_ReadFailureDisconnects ==
    [][ReadFailed(memr_op', snapshot_seen') => ~memr_connected']_vars

\* ============================================ properties, unknown identifiers
KnownMain(r) ==
    /\ r \in DOMAIN GAME_TASK_TO_MISSION_ID
    /\ GAME_TASK_TO_MISSION_ID[r] \in main_mission_table
KnownSide(r) == r \in side_mission_table

HasUnknown ==
    \/ \E k \in 1..Len(missions_checked) : ~KnownMain(missions_checked[k])
    \/ \E k \in 1..Len(side_missions_checked) :
          ~KnownSide(side_missions_checked[k])

\* A known entry was processed: its LocationId is in the outbox, or the
\* entry's raw identifier is (read_memory then takes it as already recorded).
MainProcessed(r) ==
    GAME_TASK_TO_MISSION_ID[r] \in Range(location_outbox)
        \/ r \in Range(location_outbox)
SideProcessed(r) ==
    r + SideOffset \in Range(location_outbox) \/ r \in Range(location_outbox)

\* C28: the outbox only ever holds LocationIds of known identifiers; after a
\* poll without read error every known entry that follows an unknown one, in
\* the same array or in the side array after the main array, was processed;
\* and a poll of arrays with an unknown entry leaves the poller connected
\* and sets the finished flag only for the final-boss entry.
C28_UnknownSkipped ==
    /\ [](\A k \in 1..Len(location_outbox) :
             \/ \E r \in DOMAIN GAME_TASK_TO_MISSION_ID :
                   KnownMain(r) /\ location_outbox[k] = GAME_TASK_TO_MISSION_ID[r]
             \/ \E r \in side_mission_table :
                   location_outbox[k] = r + SideOffset)
    /\ [](PolledClean =>
             /\ \A k, j \in 1..Len(missions_checked) :
                   k < j /\ ~KnownMain(missions_checked[k])
                         /\ KnownMain(missions_checked[j])
                     => MainProcessed(missions_checked[j])
             /\ \A j \in 1..Len(side_missions_checked) :
                   HasUnknown /\ KnownSide(side_missions_checked[j])
                     => SideProcessed(side_missions_checked[j]))
    /\ [][memr_op'.kind = "polled" /\ snapshot_seen' /\ HasUnknown
            => /\ memr_connected'
               /\ finished_game' =
                     (finished_game \/ FinalBossTask \in Range(missions_checked))]_vars

\* C28 witness: a clean poll of a main array whose first entry is unmapped
\* and whose second is known.
C28_Witness ==
    /\ PolledClean
    /\ missions_checked = <<71, 10>>
    /\ location_outbox = <<5>>
    /\ memr_connected /\ ~finished_game

\* ================================================= properties, outbox order
\* What a step appended to the outbox.
Appended == SubSeq(location_outbox', Len(location_outbox) + 1,
                   Len(location_outbox'))
IsMainLocation(x) == x \in main_mission_table
IsSideLocation(x) == \E r \in side_mission_table : x = r + SideOffset

\* C29: every step leaves the outbox it found as a prefix of the outbox it
\* leaves; what one poll appends is in array order: main entries before side
\* entries, and two LocationIds of the same array in the order of their
\* array indices.
C29_OutboxAppendOnlyOrdered ==
    /\ [][/\ Len(location_outbox') >= Len(location_outbox)
          /\ Prefix(location_outbox', Len(location_outbox)) = location_outbox]_vars
    /\ [][\A p, q \in 1..Len(Appended) :
             p < q =>
               \/ /\ IsMainLocation(Appended[p]) /\ IsMainLocation(Appended[q])
                  /\ \E i, j \in 1..Len(missions_checked) :
                        /\ i < j
                        /\ KnownMain(missions_checked[i])
                        /\ KnownMain(missions_checked[j])
                        /\ GAME_TASK_TO_MISSION_ID[missions_checked[i]] = Appended[p]
                        /\ GAME_TASK_TO_MISSION_ID[missions_checked[j]] = Appended[q]
               \/ /\ IsSideLocation(Appended[p]) /\ IsSideLocation(Appended[q])
                  /\ \E i, j \in 1..Len(side_missions_checked) :
                        /\ i < j
                        /\ side_missions_checked[i] + SideOffset = Appended[p]
                        /\ side_missions_checked[j] + SideOffset = Appended[q]
               \/ IsMainLocation(Appended[p]) /\ IsSideLocation(Appended[q])]_vars

\* C29 witness: a poll has just recorded two entries of the main array.
C29_Witness ==
    /\ missions_checked = <<10, 65>>
    /\ location_outbox = <<5, 60>>
    /\ memr_op.kind = "polled" /\ memr_op.grew

\* ================================================ properties, outbox cursor
\* C30: the outbox entries passed to the upstream callback so far are
\* exactly those at the (0-based) indices below outbox_index.
C30_CursorSplitsReported ==
    \A k \in 0..(Len(location_outbox) - 1) :
        (k < outbox_index) <=> (k < informed_upto)

\* ================================================= properties, marker scan
\* The module list holds the variant v marker in module m.
Holds(v, m) ==
    gk_list_ok /\ m \in 1..Len(gk_modules) /\ gk_modules[m][v] = "found"

\* (v, m) comes before (w, n) in variant-major, then module, order.
Before(v, m, w, n) == v < w \/ (v = w /\ m < n)

ScanPairs == (1..Len(markers_to_test)) \X (1..MaxModules)

ScanTicked == memr_op.connect \notin {"none", "no_process"}

\* C31: after a tick that scanned the modules, the scan succeeded exactly
\* when some module answers an address for some marker variant, whatever
\* the scans of other modules raised; the marker it recorded is the first
\* such (variant, module) in variant-major, then module, order; and when
\* none does the connect ended at the scan and the reader is disconnected.
C31_ScanFirstMatch ==
    ScanTicked =>
        /\ marker.found <=> \E q \in ScanPairs : Holds(q[1], q[2])
        /\ marker.found =>
              /\ Holds(marker.variant, marker.module)
              /\ \A q \in ScanPairs :
                    Holds(q[1], q[2]) =>
                      ~Before(q[1], q[2], marker.variant, marker.module)
        /\ ~marker.found =>
              /\ memr_op.connect = "no_marker"
              /\ ~memr_connected

\* A scan of the first variant that raised in the first module went on to
\* the second module and matched there, ahead of the first module's match
\* of the second variant; the connect then went through.
C31_Witness ==
    /\ ScanTicked
    /\ Len(gk_modules) = 2
    /\ gk_modules[1] = <<"raises", "found">>
    /\ gk_modules[2][1] = "found"
    /\ marker = [found |-> TRUE, variant |-> 1, module |-> 2]
    /\ memr_connected

\* ============================================ properties, both directions
ReplStep ==
    \/ ReplTick
    \/ ReplGreeting
    \/ HandshakeDrained
    \/ HandshakeSleepDone
    \/ ItemResponded

\* C32: a tick of the memory reader leaves the item inbox, its cursor and
\* the REPL connection flags as they are; a step of the REPL client's tick
\* (connect, handshake, drain) leaves the location outbox, its cursor,
\* finished_game and the reader's connection flags as they are; and
\* on_package changes no inbox entry outside the indices it received, and
\* neither the cursor nor any field of the reader.
C32_DirectionsShareNoState ==
    [][ /\ MemrTick =>
              UNCHANGED <<item_inbox, inbox_index, repl_connected,
                          repl_initiated_connect>>
        /\ ReplStep =>
              UNCHANGED <<location_outbox, outbox_index, finished_game,
                          memr_connected, memr_initiated_connect>>
        /\ \A first \in Indices, last \in Indices :
              on_package(first, last) =>
                /\ inbox_index' = inbox_index
                /\ DOMAIN item_inbox' = DOMAIN item_inbox \cup (first..last)
                /\ \A i \in DOMAIN item_inbox \ (first..last) :
                      item_inbox'[i] = item_inbox[i]
                /\ UNCHANGED <<repl_connected, location_outbox,
                               outbox_index, finished_game, memr_connected>>
      ]_vars

\* Both directions have carried traffic: the reader reported a location and
\* the dispatcher passed the first received item to the game.
C32_Witness ==
    /\ memr_connected
    /\ repl_connected
    /\ location_outbox # <<>>
    /\ outbox_index = 1
    /\ DOMAIN item_inbox = {0, 1}
    /\ inbox_index = 1

\* C33: the cursor of the location outbox stays between 0 and the length
\* of the outbox; a step moves it only in a tick of the reader that finds
\* the outbox longer than the cursor, and then one position forward.
C33_CursorWithinOutbox ==
    /\ [](0 <= outbox_index /\ outbox_index <= Len(location_outbox))
    /\ [][outbox_index' # outbox_index =>
            /\ MemrTick
            /\ Len(location_outbox') > outbox_index
            /\ outbox_index' = outbox_index + 1]_vars

\* A tick has moved the cursor one step into an outbox of two entries.
C33_Witness ==
    /\ memr_op.kind = "polled"
    /\ memr_op.informed
    /\ Len(location_outbox) = 2
    /\ outbox_index = 1

\* C34: at the end of every tick that polled, every entry of the location
\* outbox has been passed to inform_checked_location, whether that tick's
\* poll or an earlier '/memr refresh' appended it.
C34_ReportedByNextReadyTick ==
    [][(MemrTick /\ memr_op'.kind = "polled") =>
          /\ informed_upto' = Len(location_outbox')
          /\ memr_op'.grew => memr_op'.informed]_vars

\* A tick reported an entry that a '/memr refresh' had appended: the tick
\* made the first report of the run, of an outbox its own poll left alone.
C34_Witness ==
    /\ memr_op.kind = "polled"
    /\ memr_op.informed
    /\ ~memr_op.grew
    /\ ~memr_op.re_informed
    /\ Len(location_outbox) = 1
    /\ informed_upto = 1

\* C35: the dispatcher's cursor never moves back; a ReceivedItems event
\* stores the session's items at its indices, those below the cursor
\* included, and passes nothing to the game; every index send_items passes
\* to send_item_to_game is at or above the cursor, and with the tick as the
\* only drainer no index is passed twice, whatever was stored again.
C35_NoResendAfterReenqueue ==
    /\ [][ /\ inbox_index' >= inbox_index
           /\ \A k \in (Len(attempts) + 1)..Len(attempts') :
                 attempts'[k] >= inbox_index
           /\ \A first \in Indices, last \in Indices :
                 on_package(first, last) =>
                   /\ attempts' = attempts
                   /\ wire' = wire
                   /\ \A i \in first..last :
                         item_inbox'[i] = session_items[i]
         ]_vars
    /\ [](\A j, k \in 1..Len(attempts) :
             attempts[j] = attempts[k] => j = k)

\* A resync has just stored the items 0 and 1 again after both were passed
\* to the game; the cursor stays at 2.
C35_Witness ==
    /\ repl_op.rewrote
    /\ inbox_index = 2
    /\ attempts = <<0, 1>>
    /\ {0, 1} \subseteq DOMAIN item_inbox

\* A send_form outcome that makes the call return False.
FailedOutcomes == {"write_error", "empty", "read_error"}

\* C36: once connected the REPL client stays connected through every step
\* of the tick and of '/repl refresh', whatever the outcome of send_form; and
\* an item request that fails on a connected client still moves the cursor
\* forward.
C36_SendOutcomeKeepsConnected ==
    [][ /\ repl_connected => repl_connected'
        /\ \A t \in Tasks, outcome \in FailedOutcomes :
              (repl_connected /\ item_responded(t, outcome)) =>
                 /\ ~repl_op'.ok
                 /\ inbox_index' > inbox_index
      ]_vars

\* Two item requests in a row failed at the socket; the client is still
\* connected and the cursor has passed both.
C36_Witness ==
    /\ repl_connected
    /\ repl_op.send = "write_error"
    /\ ~repl_op.ok
    /\ attempts = <<0, 1>>
    /\ inbox_index = 2
    /\ wire = <<0, 1>>

\* The tick task is inside connect(): at the greeting or in the script.
Connecting ==
    task_pc["tick"] \in {"greeting", "hs_wait", "hs_drain", "hs_sleep"}

\* C37: a tick that finds a connect request on a connected client clears
\* the request and makes no connect attempt: it does not wait for a
\* greeting, writes no bootstrap form and leaves the connected flag set;
\* and no form of the bootstrap script is written twice.
C37_ConnectWhenConnectedIsNoOp ==
    /\ [][(ReplTick /\ repl_initiated_connect /\ repl_connected) =>
             /\ repl_op'.connect = "already"
             /\ ~repl_initiated_connect'
             /\ repl_connected'
             /\ ~Connecting'
             /\ UNCHANGED <<form_log, hs_step, hs_failed, repl_ip, repl_port>>
         ]_vars
    /\ [](\A j, k \in 1..Len(form_log) :
             (/\ form_log[j] = form_log[k]
              /\ form_log[j] \in Range(BootstrapScript)) => j = k)

\* A tick has just met a connect request on a client that was connected
\* and had run the whole script.
C37_Witness ==
    /\ repl_op.connect = "already"
    /\ repl_connected
    /\ ~repl_initiated_connect
    /\ Len(form_log) = BootstrapSteps

\* C38: a step that starts and ends with the REPL client not connected
\* writes nothing to the socket, passes no item to send_item_to_game and
\* leaves the cursor and every stored item as they are; send_form on a
\* client that is not connected returns False whatever the socket would
\* do; and the indices passed to send_item_to_game are 0, 1, 2, ... in
\* this order, the items stored before the connect included.
C38_DisconnectedChangesNothing ==
    /\ [][(~repl_connected /\ ~repl_connected') =>
             /\ UNCHANGED <<wire, form_log, attempts, inbox_index>>
             /\ \A i \in DOMAIN item_inbox :
                   i \in DOMAIN item_inbox' /\ item_inbox'[i] = item_inbox[i]
         ]_vars
    /\ [](\A outcome \in SendOutcomes \cup PostOutcomes :
             ~send_form(FALSE, outcome))
    /\ [](\A k \in 1..Len(attempts) : attempts[k] = k - 1)
    /\ [](~repl_connected => inbox_index = 0 /\ wire = <<>>)

\* Two items were stored while the client was not connected; a tick on the
\* still disconnected client has left them alone.
C38_Witness ==
    /\ ~repl_connected
    /\ repl_op.connect = "no_process"
    /\ DOMAIN item_inbox = {0, 1}
    /\ inbox_index = 0
    /\ attempts = <<>>

\* ============================================ properties, array extents
\* C39: every main-array index a poll reads is below the 70 entries the
\* layout declares, and every side-array index below the 24, whatever the
\* two counters hold.
C39_ReadsWithinExtent ==
    /\ \A i \in entry_reads.main : i < main_extent
    /\ \A i \in entry_reads.side : i < side_extent

\* ================================================ properties, aborted polls
\* The step is a tick whose poll was ended by a read error.
PollAborted == MemrTick /\ memr_op'.kind = "polled" /\ ~snapshot_seen'

\* C40: a tick whose poll a read error ended leaves the outbox it found as
\* a prefix of the outbox it leaves, leaves finished_game as it was, and,
\* when its poll appended anything before the error, passes the whole
\* outbox to inform_checked_location before it ends.
C40_AbortedPollKeepsEntries ==
    [][PollAborted =>
         /\ Len(location_outbox') >= Len(location_outbox)
         /\ Prefix(location_outbox', Len(location_outbox)) = location_outbox
         /\ finished_game' = finished_game
         /\ memr_op'.grew <=> Len(location_outbox') > Len(location_outbox)
         /\ memr_op'.grew =>
               /\ memr_op'.informed
               /\ informed_upto' = Len(location_outbox')
               /\ outbox_index' = outbox_index + 1
      ]_vars

\* A poll read the final-boss entry, recorded its location and was then
\* ended by a read error: the location was kept and passed upstream, and
\* finished_game is still unset.
C40_Witness ==
    /\ memr_op.kind = "polled"
    /\ ~snapshot_seen
    /\ memr_op.grew
    /\ memr_op.informed
    /\ missions_checked = <<FinalBossTask>>
    /\ location_outbox = <<GAME_TASK_TO_MISSION_ID[FinalBossTask]>>
    /\ informed_upto = 1
    /\ ~finished_game

=============================================================================
